---------------------------- MODULE Spec2Model ----------------------------
(***************************************************************************)
(* Model of rust-demo/src/main.rs: a client that loads a configuration,    *)
(* connects a channel, dispatches on stream.type to one of six             *)
(* server-streaming subscriptions and prints every message it receives.    *)
(*                                                                         *)
(* The remote server is the environment.  Its behaviour on the one stream  *)
(* of a run is fixed in the variable script (the messages it yields and    *)
(* how the stream ends); whether the connection and the call initiation    *)
(* succeed is chosen when the corresponding await returns.                 *)
(***************************************************************************)
EXTENDS Integers, Sequences, FiniteSets, TLC

VARIABLES
    config,      \* Config loaded by load_config (never written afterwards)
    script,      \* what the server does: [call, msgs, end]
    pc,          \* position of main: start, connected, calling, loop, awaiting, done
    connects,    \* number of connection attempts made on the network
    channel,     \* "none" | "connected"
    built,       \* number of Subscribe*Request values constructed
    request,     \* Option of the Subscribe*Request built
    metadata,    \* metadata map of the tonic::Request (key -> value)
    calls,       \* streaming calls issued on the client, in order
    handle,      \* the Streaming handle: "none" | "open" | "closed"
    closes,      \* number of times a handle was dropped
    pulls,       \* number of stream.message() calls
    rendered,    \* records printed, one per received message
    stderr,      \* lines written by eprintln!
    result,      \* how the process ended
    addresses,   \* argument of a lone create_address_filter application
    filter,      \* its return value
    fpc          \* "idle" | "called" | "returned"

vars == <<config, script, pc, connects, channel, built, request, metadata, calls,
          handle, closes, pulls, rendered, stderr, result,
          addresses, filter, fpc>>

runVars == <<config, script, pc, connects, channel, built, request, metadata, calls,
             handle, closes, pulls, rendered, stderr, result>>

filterVars == <<addresses, filter, fpc>>

---------------------------------------------------------------------------
(* Bounds *)

MaxMsgs == 2

MaxAddrs == 4

MaxTokLen == 1

---------------------------------------------------------------------------
(* Option<T> *)

None == [tag |-> "None"]

Some(x) == [tag |-> "Some", val |-> x]

IsSome(o) == o.tag = "Some"

\* All sequences over S of length at most n
SeqsUpTo(S, n) == UNION { [1..k -> S] : k \in 0..n }

---------------------------------------------------------------------------
(* Filter Builder *)

AddressFilter(addrs) == [addresses |-> addrs]

\* Variant of create_address_filter that keeps only the first occurrence of
\* every address
RECURSIVE Dedup(_)
Dedup(s) ==
    IF s = <<>> THEN <<>>
    ELSE LET front == Dedup(SubSeq(s, 1, Len(s) - 1))
             last  == s[Len(s)]
         IN IF \E i \in 1..Len(front) : front[i] = last
            THEN front ELSE Append(front, last)

create_address_filter_dedup(addrs) ==
    IF IsSome(addrs) THEN Some(AddressFilter(Dedup(addrs.val))) ELSE None

\* addresses.map(|addrs| AddressFilter { addresses: addrs })
create_address_filter(addrs) ==
    IF IsSome(addrs) THEN Some(AddressFilter(addrs.val)) ELSE None

---------------------------------------------------------------------------
(* Credential header *)

\* Characters that occur in the modelled header values, with their bytes
Byte ==
    ("B" :> 66) @@ ("e" :> 101) @@ ("a" :> 97) @@ ("r" :> 114) @@ (" " :> 32)
    @@ ("t" :> 116) @@ ("\n" :> 10)

\* Characters a configured credential is drawn from: one that a header
\* value may hold and one that it may not
TokChars == {"t", "\n"}

\* http::HeaderValue accepts a byte b iff (b >= 32 and b != 127) or b == '\t'
is_valid_header_byte(b) == (b >= 32 /\ b # 127) \/ b = 9

\* Variant of MetadataValue_try_from that accepts every string
MetadataValue_try_from_lenient(s) == [tag |-> "Ok", val |-> s]

\* MetadataValue::try_from(String)
MetadataValue_try_from(s) ==
    IF \A i \in 1..Len(s) : is_valid_header_byte(Byte[s[i]])
    THEN [tag |-> "Ok", val |-> s]
    ELSE [tag |-> "Err", cause |-> "InvalidMetadataValue"]

\* format!("Bearer {}", authorization)
Bearer == <<"B", "e", "a", "r", "e", "r", " ">>

format_bearer(authorization) == Bearer \o authorization

\* metadata_mut().insert(key, value) on a metadata map
MetadataInsert(md, key, value) ==
    [k \in (DOMAIN md) \cup {key} |-> IF k = key THEN value ELSE md[k]]

\* tonic::Request::new(request): no metadata
EmptyMetadata == [k \in {} |-> <<>>]

\* Variant of add_auth_header that inserts the header whatever the credential
add_auth_header_always(md, cfg) ==
    LET auth_value == MetadataValue_try_from(format_bearer(cfg.server.authorization))
    IN IF auth_value.tag = "Err"
       THEN [tag |-> "Err", cause |-> auth_value.cause]
       ELSE [tag |-> "Ok",
             val |-> MetadataInsert(md, "authorization", auth_value.val)]

\* add_auth_header: Ok(metadata of the request) or Err(cause)
add_auth_header(md, cfg) ==
    IF cfg.server.authorization # <<>>
    THEN LET auth_value ==
                 MetadataValue_try_from(format_bearer(cfg.server.authorization))
         IN IF auth_value.tag = "Err"
            THEN [tag |-> "Err", cause |-> auth_value.cause]
            ELSE [tag |-> "Ok",
                  val |-> MetadataInsert(md, "authorization", auth_value.val)]
    ELSE [tag |-> "Ok", val |-> md]

---------------------------------------------------------------------------
(* Subscription requests, one per stream_* function *)

SubscribeTradesRequest(cfg) ==
    [shape   |-> "SubscribeTradesRequest",
     program |-> create_address_filter(cfg.filters.programs),
     pool    |-> create_address_filter(cfg.filters.pools),
     token   |-> create_address_filter(cfg.filters.tokens),
     trader  |-> create_address_filter(cfg.filters.traders)]

SubscribeOrdersRequest(cfg) ==
    [shape   |-> "SubscribeOrdersRequest",
     program |-> create_address_filter(cfg.filters.programs),
     pool    |-> create_address_filter(cfg.filters.pools),
     token   |-> create_address_filter(cfg.filters.tokens),
     trader  |-> create_address_filter(cfg.filters.traders)]

\* Variant of SubscribePoolsRequest copied from the trades request: the token
\* filter is read from the traders list
SubscribePoolsRequest_traders(cfg) ==
    [shape   |-> "SubscribePoolsRequest",
     program |-> create_address_filter(cfg.filters.programs),
     pool    |-> create_address_filter(cfg.filters.pools),
     token   |-> create_address_filter(cfg.filters.traders)]

SubscribePoolsRequest(cfg) ==
    [shape   |-> "SubscribePoolsRequest",
     program |-> create_address_filter(cfg.filters.programs),
     pool    |-> create_address_filter(cfg.filters.pools),
     token   |-> create_address_filter(cfg.filters.tokens)]

SubscribeTransactionsRequest(cfg) ==
    [shape   |-> "SubscribeTransactionsRequest",
     program |-> create_address_filter(cfg.filters.programs),
     signer  |-> create_address_filter(cfg.filters.signers)]

SubscribeTransfersRequest(cfg) ==
    [shape    |-> "SubscribeTransfersRequest",
     sender   |-> create_address_filter(cfg.filters.senders),
     receiver |-> create_address_filter(cfg.filters.receivers),
     token    |-> create_address_filter(cfg.filters.tokens)]

SubscribeBalanceUpdateRequest(cfg) ==
    [shape   |-> "SubscribeBalanceUpdateRequest",
     address |-> create_address_filter(cfg.filters.addresses),
     token   |-> create_address_filter(cfg.filters.tokens)]

---------------------------------------------------------------------------
(* Dispatch table of main's match, and what differs between the six
   stream_* functions *)

ValidTypes ==
    {"dex_trades", "dex_orders", "dex_pools", "transactions", "transfers",
     "balances"}

SupportedTypes ==
    <<"dex_trades", "dex_orders", "dex_pools", "transactions", "transfers",
      "balances">>

\* Variant of StreamMethod with the arms of dex_trades and dex_orders swapped
StreamMethod_swapped(stream_type) ==
    CASE stream_type = "dex_trades"   -> "stream_dex_orders"
      [] stream_type = "dex_orders"   -> "stream_dex_trades"
      [] stream_type = "dex_pools"    -> "stream_dex_pools"
      [] stream_type = "transactions" -> "stream_transactions"
      [] stream_type = "transfers"    -> "stream_transfers"
      [] stream_type = "balances"     -> "stream_balances"
      [] OTHER                        -> "unknown"

\* match config.stream.stream_type.as_str(): the function the arm calls
StreamMethod(stream_type) ==
    CASE stream_type = "dex_trades"   -> "stream_dex_trades"
      [] stream_type = "dex_orders"   -> "stream_dex_orders"
      [] stream_type = "dex_pools"    -> "stream_dex_pools"
      [] stream_type = "transactions" -> "stream_transactions"
      [] stream_type = "transfers"    -> "stream_transfers"
      [] stream_type = "balances"     -> "stream_balances"
      [] OTHER                        -> "unknown"

\* The request each stream_* function builds
BuildRequest(fn, cfg) ==
    CASE fn = "stream_dex_trades"   -> SubscribeTradesRequest(cfg)
      [] fn = "stream_dex_orders"   -> SubscribeOrdersRequest(cfg)
      [] fn = "stream_dex_pools"    -> SubscribePoolsRequest(cfg)
      [] fn = "stream_transactions" -> SubscribeTransactionsRequest(cfg)
      [] fn = "stream_transfers"    -> SubscribeTransfersRequest(cfg)
      [] fn = "stream_balances"     -> SubscribeBalanceUpdateRequest(cfg)

\* The client method each stream_* function calls
ClientMethod(fn) ==
    CASE fn = "stream_dex_trades"   -> "dex_trades"
      [] fn = "stream_dex_orders"   -> "dex_orders"
      [] fn = "stream_dex_pools"    -> "dex_pools"
      [] fn = "stream_transactions" -> "transactions"
      [] fn = "stream_transfers"    -> "transfers"
      [] fn = "stream_balances"     -> "balances"

\* The first line each loop body prints
MessageHeader(fn) ==
    CASE fn = "stream_dex_trades"   -> "Received DEX trade message:"
      [] fn = "stream_dex_orders"   -> "Received DEX order message:"
      [] fn = "stream_dex_pools"    -> "Received DEX pool message:"
      [] fn = "stream_transactions" -> "Received transaction message:"
      [] fn = "stream_transfers"    -> "Received transfer message:"
      [] fn = "stream_balances"     -> "Received balance message:"

\* Variant of BreaksAfterFirst: no loop body ends in break
BreaksAfterFirst_never(fn) == FALSE

\* Variant of BreaksAfterFirst: every loop body ends in break
BreaksAfterFirst_always(fn) == TRUE

\* Whether the loop body ends in break (stream_balances) or falls through
\* to the next stream.message() (the other five)
BreaksAfterFirst(fn) == fn = "stream_balances"

---------------------------------------------------------------------------
(* Results *)

Running == [tag |-> "Running"]

Ok == [tag |-> "Ok"]

Err(cause) == [tag |-> "Err", cause |-> cause]

\* std::process::exit(code)
Exited(code) == [tag |-> "Exit", code |-> code]

\* The code of std::process::exit(1) in the unknown-type arm
UNKNOWN_TYPE_EXIT == 1

\* The exit status of the process: main returning Ok(()) exits with 0,
\* main returning Err(..) exits with 1 (Termination for Result), and
\* process::exit exits with its argument
ExitStatus(r) ==
    CASE r.tag = "Ok"   -> 0
      [] r.tag = "Err"  -> 1
      [] r.tag = "Exit" -> r.code

\* Errors of Channel::from_shared(..)?, of connect().await? and of the
\* streaming call or stream (a tonic::Status)
InvalidUri == "InvalidUri"

ConnectErrors == {"ConnectError"}

Statuses == {"Unavailable", "Internal"}

---------------------------------------------------------------------------
(* Messages and the server's side of the stream *)

\* A message carries an optional block with a slot; the two messages differ
MsgSet == { [block |-> None], [block |-> Some([slot |-> 7])] }

StreamEnds == {"eos", "hang"} \cup Statuses

\* How the server answers the streaming call: it opens the stream or refuses
\* with a status
CallOutcomes == {"ok"} \cup Statuses

Scripts ==
    [call : CallOutcomes, msgs : SeqsUpTo(MsgSet, MaxMsgs), end : StreamEnds]

\* What the k-th stream.message().await returns for a server following sc:
\* Ok(Some(message)), Ok(None) at end of stream, Err(status); "Pending" when
\* the server keeps the stream open and sends nothing
message_result(sc, k) ==
    IF k <= Len(sc.msgs) THEN [tag |-> "Ok", val |-> Some(sc.msgs[k])]
    ELSE IF sc.end = "eos" THEN [tag |-> "Ok", val |-> None]
    ELSE IF sc.end = "hang" THEN [tag |-> "Pending"]
    ELSE [tag |-> "Err", cause |-> sc.end]

\* println!("  Block Slot: {:?}", message.block.map(|b| b.slot)) under the
\* header line of the loop
Render(fn, message) ==
    [header |-> MessageHeader(fn),
     slot   |-> IF IsSome(message.block)
                THEN Some(message.block.val.slot) ELSE None]

\* Variant of LoopStep that ends the loop on a stream error without
\* propagating it
LoopStep_swallow(fn, r) ==
    IF r.tag = "Err" \/ ~IsSome(r.val)
    THEN [render |-> <<>>, exit |-> TRUE, result |-> Ok]
    ELSE [render |-> <<Render(fn, r.val.val)>>,
          exit   |-> BreaksAfterFirst(fn),
          result |-> Ok]

\* Variant of LoopStep that prints nothing for a message without a block
LoopStep_skip(fn, r) ==
    IF r.tag = "Err"
    THEN [render |-> <<>>, exit |-> TRUE, result |-> Err(r.cause)]
    ELSE IF ~IsSome(r.val)
    THEN [render |-> <<>>, exit |-> TRUE, result |-> Ok]
    ELSE [render |-> IF IsSome(r.val.val.block)
                     THEN <<Render(fn, r.val.val)>> ELSE <<>>,
          exit   |-> BreaksAfterFirst(fn),
          result |-> Ok]

\* Variant of LoopStep that prints every message twice
LoopStep_twice(fn, r) ==
    IF r.tag = "Err"
    THEN [render |-> <<>>, exit |-> TRUE, result |-> Err(r.cause)]
    ELSE IF ~IsSome(r.val)
    THEN [render |-> <<>>, exit |-> TRUE, result |-> Ok]
    ELSE [render |-> <<Render(fn, r.val.val), Render(fn, r.val.val)>>,
          exit   |-> BreaksAfterFirst(fn),
          result |-> Ok]

\* Variant of LoopStep that goes on to the next message after a stream error
LoopStep_ignore_error(fn, r) ==
    IF r.tag = "Err"
    THEN [render |-> <<>>, exit |-> FALSE, result |-> Ok]
    ELSE IF ~IsSome(r.val)
    THEN [render |-> <<>>, exit |-> TRUE, result |-> Ok]
    ELSE [render |-> <<Render(fn, r.val.val)>>,
          exit   |-> BreaksAfterFirst(fn),
          result |-> Ok]

\* Variant of LoopStep in which a loop that ends in break reports a stream
\* that closed before its first message as an error
LoopStep_empty_fails(fn, r) ==
    IF r.tag = "Err"
    THEN [render |-> <<>>, exit |-> TRUE, result |-> Err(r.cause)]
    ELSE IF ~IsSome(r.val)
    THEN [render |-> <<>>, exit |-> TRUE,
          result |-> IF BreaksAfterFirst(fn) THEN Err("EmptyStream") ELSE Ok]
    ELSE [render |-> <<Render(fn, r.val.val)>>,
          exit   |-> BreaksAfterFirst(fn),
          result |-> Ok]

\* One turn of  while let Some(message) = stream.message().await? { .. }
\* on the result r of the await: what is printed, whether the function
\* returns, and with which result
LoopStep(fn, r) ==
    IF r.tag = "Err"
    THEN [render |-> <<>>, exit |-> TRUE, result |-> Err(r.cause)]
    ELSE IF ~IsSome(r.val)
    THEN [render |-> <<>>, exit |-> TRUE, result |-> Ok]
    ELSE [render |-> <<Render(fn, r.val.val)>>,
          exit   |-> BreaksAfterFirst(fn),
          result |-> Ok]

---------------------------------------------------------------------------
(* Configurations *)

Dims ==
    {"programs", "pools", "tokens", "traders", "senders", "receivers",
     "addresses", "signers"}

StreamTypes == ValidTypes \cup {"bogus"}

Tokens == SeqsUpTo(TokChars, MaxTokLen)

Addrs == {"a", "b", "c"}

MkConfig(authorization, stream_type, filters) ==
    [server  |-> [authorization |-> authorization],
     stream  |-> [stream_type |-> stream_type],
     filters |-> filters]

\* Filter sections in which every list has the same value
UniformFilters ==
    { [d \in Dims |-> v] : v \in {None, Some(<<>>), Some(<<"a", "b">>)} }

\* Filter sections in which every list is absent, empty or one address
MixedFilters == [Dims -> {None, Some(<<>>), Some(<<"a">>)}]

---------------------------------------------------------------------------
(* The run: main and the stream_* function it calls *)

RunStart ==
    /\ pc = "start"
    /\ connects = 0
    /\ channel = "none"
    /\ built = 0
    /\ request = None
    /\ metadata = EmptyMetadata
    /\ calls = <<>>
    /\ handle = "none"
    /\ closes = 0
    /\ pulls = 0
    /\ rendered = <<>>
    /\ stderr = <<>>
    /\ result = Running

Init ==
    /\ config \in { MkConfig(a, t, f) :
                      a \in Tokens, t \in StreamTypes, f \in UniformFilters }
    /\ script \in Scripts
    /\ RunStart
    /\ addresses = None /\ filter = None /\ fpc = "idle"

\* Channel::from_shared(server_url)? .. .connect().await?
Connect ==
    /\ pc = "start"
    /\ \E outcome \in {"ok", InvalidUri} \cup ConnectErrors :
         /\ connects' = IF outcome = InvalidUri THEN connects ELSE connects + 1
         /\ IF outcome = "ok"
            THEN /\ channel' = "connected"
                 /\ pc' = "connected"
                 /\ result' = result
            ELSE /\ channel' = channel
                 /\ pc' = "done"
                 /\ result' = Err(outcome)
    /\ UNCHANGED <<config, script, built, request, metadata, calls, handle,
                   closes, pulls, rendered, stderr>>
    /\ UNCHANGED filterVars

\* The match of main and the selected stream_* function up to its first
\* await: build the request, add the header, issue the call
Dispatch ==
    /\ pc = "connected"
    /\ LET fn == StreamMethod(config.stream.stream_type)
       IN IF fn = "unknown"
          THEN /\ stderr' = Append(stderr,
                                   [unknown   |-> config.stream.stream_type,
                                    supported |-> SupportedTypes])
               /\ result' = Exited(UNKNOWN_TYPE_EXIT)
               /\ pc' = "done"
               /\ UNCHANGED <<built, request, metadata, calls>>
          ELSE LET req == BuildRequest(fn, config)
                   hdr == add_auth_header(EmptyMetadata, config)
               IN /\ built' = built + 1
                  /\ request' = Some(req)
                  /\ stderr' = stderr
                  /\ IF hdr.tag = "Err"
                     THEN /\ result' = Err(hdr.cause)
                          /\ pc' = "done"
                          /\ UNCHANGED <<metadata, calls>>
                     ELSE /\ metadata' = hdr.val
                          /\ calls' = Append(calls,
                                             [method   |-> ClientMethod(fn),
                                              request  |-> req,
                                              metadata |-> hdr.val])
                          /\ pc' = "calling"
                          /\ result' = result
    /\ UNCHANGED <<config, script, connects, channel, handle, closes, pulls,
                   rendered>>
    /\ UNCHANGED filterVars

\* Variant of CallReturn that issues the call again when it fails
CallReturn_retry ==
    /\ pc = "calling"
    /\ LET outcome == script.call
       IN IF outcome = "ok"
         THEN /\ handle' = "open"
              /\ pc' = "loop"
              /\ calls' = calls
         ELSE /\ handle' = handle
              /\ pc' = "calling"
              /\ Len(calls) < 3
              /\ calls' = Append(calls, calls[Len(calls)])
    /\ UNCHANGED <<config, script, connects, channel, built, request, metadata,
                   closes, pulls, rendered, stderr, result>>
    /\ UNCHANGED filterVars

\* client.<method>(grpc_request).await?.into_inner()
CallReturn ==
    /\ pc = "calling"
    /\ LET outcome == script.call
       IN IF outcome = "ok"
         THEN /\ handle' = "open"
              /\ pc' = "loop"
              /\ result' = result
         ELSE /\ handle' = handle
              /\ pc' = "done"
              /\ result' = Err(outcome)
    /\ UNCHANGED <<config, script, connects, channel, built, request, metadata,
                   calls, closes, pulls, rendered, stderr>>
    /\ UNCHANGED filterVars

\* stream.message() is called and awaited
Pull ==
    /\ pc = "loop"
    /\ pulls' = pulls + 1
    /\ pc' = "awaiting"
    /\ UNCHANGED <<config, script, connects, channel, built, request, metadata,
                   calls, handle, closes, rendered, stderr, result>>
    /\ UNCHANGED filterVars

\* The await returns: the loop body runs, or the function returns and the
\* stream is dropped
Recv ==
    /\ pc = "awaiting"
    /\ LET r == message_result(script, pulls)
       IN /\ r.tag # "Pending"
          /\ LET step == LoopStep(StreamMethod(config.stream.stream_type), r)
             IN /\ rendered' = rendered \o step.render
                /\ IF step.exit
                   THEN /\ handle' = "closed"
                        /\ closes' = closes + 1
                        /\ result' = step.result
                        /\ pc' = "done"
                   ELSE /\ pc' = "loop"
                        /\ UNCHANGED <<handle, closes, result>>
    /\ UNCHANGED <<config, script, connects, channel, built, request, metadata,
                   calls, pulls, stderr>>
    /\ UNCHANGED filterVars

Next == Connect \/ Dispatch \/ CallReturn \/ Pull \/ Recv

Spec == Init /\ [][Next]_vars

\* The runtime polls main's task whenever the await it is suspended on
\* has a result
FairSpec == Spec /\ WF_vars(Next)

---------------------------------------------------------------------------
(* Request building alone, over every combination of filter lists *)

InitBuild ==
    /\ config \in { MkConfig(<<"t">>, t, f) :
                      t \in StreamTypes, f \in MixedFilters }
    /\ script = [call |-> "ok", msgs |-> <<>>, end |-> "eos"]
    /\ RunStart
    /\ addresses = None /\ filter = None /\ fpc = "idle"

NextBuild == Connect \/ Dispatch

SpecBuild == InitBuild /\ [][NextBuild]_vars

---------------------------------------------------------------------------
(* create_address_filter alone, over every list up to MaxAddrs addresses *)

InitFilter ==
    /\ config = MkConfig(<<>>, "balances", [d \in Dims |-> None])
    /\ script = [call |-> "ok", msgs |-> <<>>, end |-> "eos"]
    /\ RunStart
    /\ addresses \in {None} \cup { Some(l) : l \in SeqsUpTo(Addrs, MaxAddrs) }
    /\ filter = None
    /\ fpc = "called"

ApplyFilter ==
    /\ fpc = "called"
    /\ filter' = create_address_filter(addresses)
    /\ fpc' = "returned"
    /\ UNCHANGED addresses
    /\ UNCHANGED runVars

NextFilter == ApplyFilter

SpecFilter == InitFilter /\ [][NextFilter]_vars

---------------------------------------------------------------------------
(* Properties *)

StreamType == config.stream.stream_type

\* The five kinds whose loop runs until end of stream or error
UnboundedTypes ==
    {"dex_trades", "dex_orders", "dex_pools", "transactions", "transfers"}

\* Request shape and filter fields of every kind, with the configuration list
\* each field stands for
ShapeOf ==
    [t \in ValidTypes |->
        CASE t = "dex_trades"   -> "SubscribeTradesRequest"
          [] t = "dex_orders"   -> "SubscribeOrdersRequest"
          [] t = "dex_pools"    -> "SubscribePoolsRequest"
          [] t = "transactions" -> "SubscribeTransactionsRequest"
          [] t = "transfers"    -> "SubscribeTransfersRequest"
          [] t = "balances"     -> "SubscribeBalanceUpdateRequest"]

FieldsOf ==
    [t \in ValidTypes |->
        CASE t \in {"dex_trades", "dex_orders"}
                                -> {"program", "pool", "token", "trader"}
          [] t = "dex_pools"    -> {"program", "pool", "token"}
          [] t = "transactions" -> {"program", "signer"}
          [] t = "transfers"    -> {"sender", "receiver", "token"}
          [] t = "balances"     -> {"address", "token"}]

ListOf ==
    [f \in {"program", "pool", "token", "trader", "sender", "receiver",
            "address", "signer"} |->
        CASE f = "program"  -> "programs"
          [] f = "pool"     -> "pools"
          [] f = "token"    -> "tokens"
          [] f = "trader"   -> "traders"
          [] f = "sender"   -> "senders"
          [] f = "receiver" -> "receivers"
          [] f = "address"  -> "addresses"
          [] f = "signer"   -> "signers"]

RequestFields(r) == (DOMAIN r) \ {"shape"}

\* The header line each kind prints above a message
HeaderOf ==
    [t \in ValidTypes |->
        CASE t = "dex_trades"   -> "Received DEX trade message:"
          [] t = "dex_orders"   -> "Received DEX order message:"
          [] t = "dex_pools"    -> "Received DEX pool message:"
          [] t = "transactions" -> "Received transaction message:"
          [] t = "transfers"    -> "Received transfer message:"
          [] t = "balances"     -> "Received balance message:"]

\* The records printed for the first n messages of the script, in order
ExpectedRendered(n) ==
    [i \in 1..n |->
        [header |-> HeaderOf[StreamType],
         slot   |-> IF script.msgs[i].block.tag = "Some"
                    THEN Some(script.msgs[i].block.val.slot) ELSE None]]

\* The run ended on its configuration: the unknown-type exit, or a server
\* address that is no URI
ConfigurationFailure ==
    \/ result.tag = "Exit" /\ stderr # <<>>
    \/ result = Err(InvalidUri)

\* C1: with a stream type outside the six valid ones the run makes no
\* connection attempt and no streaming call, and ends with the
\* configuration error
C1_UnknownKindNoNetwork ==
    StreamType \notin ValidTypes =>
        /\ connects = 0
        /\ calls = <<>>
        /\ (pc = "done" => ConfigurationFailure)

\* C2: a filter field of the request is present if and only if the
\* configured list is present and non-empty
C2_FilterPresentIffNonEmpty ==
    IsSome(request) =>
        \A f \in RequestFields(request.val) :
            IsSome(request.val[f]) <=>
                /\ IsSome(config.filters[ListOf[f]])
                /\ config.filters[ListOf[f]].val # <<>>

\* C3: the bounded loop (balances) on a stream with at least one message
\* pulls once, prints the first message only, drops the handle and the run
\* succeeds; a second pull is never made
C3_BoundedStopsAfterFirst ==
    (StreamType = "balances" /\ Len(script.msgs) >= 1) =>
        /\ pulls <= 1
        /\ Len(rendered) <= 1
        /\ (pulls = 1 /\ pc # "awaiting") =>
              /\ rendered = ExpectedRendered(1)
              /\ handle = "closed"
              /\ closes = 1
              /\ pc = "done"
              /\ result = Ok

C3_Witness ==
    /\ StreamType = "balances"
    /\ Len(script.msgs) = 2
    /\ pc = "done"
    /\ pulls = 1
    /\ Len(rendered) = 1
    /\ handle = "closed"
    /\ result = Ok

\* C4: an unbounded loop on a stream of k messages and then an error prints
\* exactly the k messages, makes no pull after the one that failed, and the
\* run fails with the status the stream yielded
C4_StreamErrorEndsRun ==
    (StreamType \in UnboundedTypes /\ script.end \in Statuses) =>
        /\ pulls <= Len(script.msgs) + 1
        /\ (pulls = Len(script.msgs) + 1 /\ pc # "awaiting") =>
              /\ rendered = ExpectedRendered(Len(script.msgs))
              /\ pc = "done"
              /\ handle = "closed"
              /\ result = Err(script.end)

C4_Witness ==
    /\ StreamType = "dex_trades"
    /\ script.end = "Unavailable"
    /\ Len(script.msgs) = 2
    /\ pulls = 3
    /\ pc = "done"
    /\ Len(rendered) = 2
    /\ result = Err("Unavailable")

\* C5: an unbounded loop on a stream of N messages that then closes cleanly
\* eventually ends with all N messages printed in order and the run
\* successful
C5_CleanCloseSucceeds ==
    (StreamType \in UnboundedTypes /\ script.end = "eos" /\ handle = "open")
        ~> (/\ pc = "done"
            /\ result = Ok
            /\ pulls = Len(script.msgs) + 1
            /\ rendered = ExpectedRendered(Len(script.msgs)))

C5_Witness ==
    /\ StreamType = "transactions"
    /\ script.end = "eos"
    /\ script.msgs = << [block |-> Some([slot |-> 7])], [block |-> None] >>
    /\ pc = "done"
    /\ result = Ok
    /\ Len(rendered) = 2

\* C6: a call carries the authorization entry if and only if the configured
\* credential is non-empty, and its value is then "Bearer " followed by the
\* credential
C6_CredentialGating ==
    \A i \in 1..Len(calls) :
        LET md == calls[i].metadata
        IN /\ ("authorization" \in DOMAIN md) <=>
                  (config.server.authorization # <<>>)
           /\ DOMAIN md \subseteq {"authorization"}
           /\ config.server.authorization # <<>> =>
                  md["authorization"] =
                      <<"B", "e", "a", "r", "e", "r", " ">>
                          \o config.server.authorization

C6_Witness ==
    /\ Len(calls) = 1
    /\ config.server.authorization = <<"t">>
    /\ calls[1].metadata["authorization"] =
           <<"B", "e", "a", "r", "e", "r", " ", "t">>

\* C7: every valid stream type builds the request of its own kind and calls
\* the client method of its own kind
C7_DispatchCorrect ==
    /\ IsSome(request) =>
          /\ StreamType \in ValidTypes
          /\ request.val.shape = ShapeOf[StreamType]
    /\ \A i \in 1..Len(calls) :
          /\ calls[i].method = StreamType
          /\ calls[i].request.shape = ShapeOf[StreamType]
    /\ \A i \in 1..Len(rendered) : rendered[i].header = HeaderOf[StreamType]
    /\ (StreamType \in ValidTypes /\ pc \in {"calling", "loop", "awaiting"})
          => Len(calls) = 1

C7_Witness ==
    /\ StreamType = "dex_orders"
    /\ Len(calls) = 1
    /\ calls[1].method = "dex_orders"
    /\ calls[1].request.shape = "SubscribeOrdersRequest"
    /\ pc = "loop"

\* C8: the request has exactly the filter fields of its kind, each filled
\* from the configuration list of the same dimension and from no other
C8_DimensionIsolation ==
    IsSome(request) =>
        /\ RequestFields(request.val) = FieldsOf[StreamType]
        /\ \A f \in RequestFields(request.val) :
              /\ IsSome(request.val[f]) => IsSome(config.filters[ListOf[f]])
              /\ IsSome(request.val[f]) =>
                    request.val[f].val.addresses
                        = config.filters[ListOf[f]].val

C8_Witness ==
    /\ StreamType = "dex_pools"
    /\ config.filters.traders = Some(<<"a">>)
    /\ config.filters.signers = Some(<<"a">>)
    /\ config.filters.programs = None
    /\ config.filters.pools = None
    /\ config.filters.tokens = None
    /\ IsSome(request)
    /\ \A f \in RequestFields(request.val) : request.val[f] = None

\* C9: the filter built from a non-empty list holds exactly the strings of
\* the list, in the same order
C9_FilterPassThrough ==
    (fpc = "returned" /\ IsSome(addresses) /\ addresses.val # <<>>) =>
        /\ IsSome(filter)
        /\ Len(filter.val.addresses) = Len(addresses.val)
        /\ \A i \in 1..Len(addresses.val) :
              filter.val.addresses[i] = addresses.val[i]

C9_Witness ==
    /\ fpc = "returned"
    /\ addresses = Some(<<"b", "a", "b">>)
    /\ IsSome(filter)
    /\ filter.val.addresses = <<"b", "a", "b">>

\* C10 as stated: every finished run built exactly one request and invoked
\* exactly one call
C10_ExactlyOneRequestAndCall ==
    pc = "done" => (built = 1 /\ Len(calls) = 1)

\* The credential can be encoded as a header value
Encodable == \A i \in 1..Len(config.server.authorization) :
                 config.server.authorization[i] # "\n"

\* C10: a run builds at most one request, invokes at most one call and has
\* at most one handle; a finished run built one request exactly when the
\* channel connected and the stream type is valid, and invoked one call
\* exactly when moreover the credential could be encoded
C10_AtMostOneRequestAndCall ==
    /\ built <= 1
    /\ Len(calls) <= 1
    /\ closes <= 1
    /\ (handle # "none") => Len(calls) = 1
    /\ pc = "done" =>
          /\ built = 1 <=>
                (channel = "connected" /\ StreamType \in ValidTypes)
          /\ Len(calls) = 1 <=>
                (channel = "connected" /\ StreamType \in ValidTypes
                    /\ Encodable)

C10_Witness ==
    /\ pc = "done"
    /\ built = 1
    /\ Len(calls) = 1
    /\ handle = "closed"
    /\ pulls = 2

\* What a run does when it follows a termination policy: a bounded loop
\* never asks for a second message; an unbounded loop returns Ok only at the
\* end of the stream, after every message
FollowsPolicy(p) ==
    CASE p = "bounded" ->
            Len(script.msgs) >= 1 => pulls <= 1
      [] p = "unbounded" ->
            (handle = "closed" /\ result = Ok) =>
                pulls = Len(script.msgs) + 1

Policies == {"bounded", "unbounded"}

\* C11: for every one of the six kinds the loop follows whichever of the two
\* policies the caller chooses.  Config has no field that carries the
\* choice, so the run has to follow both
C11_PolicyIsCallersChoice ==
    StreamType \in ValidTypes => \A p \in Policies : FollowsPolicy(p)

\* C12: the run that ends on an unknown stream type exits with a non-zero
\* status and a report that lists the six valid types, and no run that ends
\* any other way (success, transport failure, stream failure) exits with
\* that status
C12_DistinctExitOnUnknownType ==
    pc = "done" =>
        /\ (channel = "connected" /\ StreamType \notin ValidTypes) =>
              /\ result.tag = "Exit"
              /\ ExitStatus(result) # 0
              /\ Len(stderr) = 1
              /\ stderr[1].unknown = StreamType
              /\ { stderr[1].supported[i] : i \in 1..Len(stderr[1].supported) }
                     = ValidTypes
        /\ result.tag # "Exit" => ExitStatus(result) # UNKNOWN_TYPE_EXIT

\* The number of messages the handle has yielded so far: every answered
\* pull up to the length of the stream
Yielded ==
    LET answered == IF pc = "awaiting" THEN pulls - 1 ELSE pulls
    IN IF answered <= Len(script.msgs) THEN answered ELSE Len(script.msgs)

\* C13: at every moment the printed records are exactly the messages the
\* handle has yielded so far, in the order it yielded them, each once; so
\* the i-th message is printed before the (i+1)-th pull and at most one
\* message is in flight
C13_RenderedInArrivalOrder ==
    StreamType \in ValidTypes =>
        /\ Len(rendered) = Yielded
        /\ rendered = ExpectedRendered(Yielded)
        /\ pulls <= Len(rendered) + 1

C13_Witness ==
    /\ StreamType = "transfers"
    /\ script.msgs = << [block |-> Some([slot |-> 7])], [block |-> None] >>
    /\ pc = "awaiting"
    /\ pulls = 3
    /\ rendered = << [header |-> "Received transfer message:",
                      slot   |-> Some(7)],
                     [header |-> "Received transfer message:",
                      slot   |-> None] >>

\* C14: when the server refuses the streaming call, the call was issued
\* once and is not issued again, nothing is pulled or printed, and the run
\* ends with the status the call returned
C14_CallFailureIsFatal ==
    (StreamType \in ValidTypes /\ script.call \in Statuses) =>
        /\ Len(calls) <= 1
        /\ handle = "none"
        /\ pulls = 0
        /\ rendered = <<>>
        /\ pc \notin {"loop", "awaiting"}
        /\ (pc = "done" /\ calls # <<>>) => result = Err(script.call)

C14_Witness ==
    /\ StreamType = "balances"
    /\ script.call = "Internal"
    /\ pc = "done"
    /\ Len(calls) = 1
    /\ calls[1].method = "balances"
    /\ result = Err("Internal")

\* C15: with a credential that cannot be encoded as a header value, no
\* call is ever issued and nothing is pulled, for each of the six kinds; the
\* run ends in failure, and once the channel is connected that failure is
\* the one add_auth_header returned
C15_BadCredentialStopsBeforeCall ==
    (StreamType \in ValidTypes /\ ~Encodable) =>
        /\ calls = <<>>
        /\ metadata = EmptyMetadata
        /\ handle = "none"
        /\ pulls = 0
        /\ rendered = <<>>
        /\ pc \notin {"calling", "loop", "awaiting"}
        /\ pc = "done" => result.tag = "Err"
        /\ (pc = "done" /\ channel = "connected") =>
              result = Err("InvalidMetadataValue")

C15_Witness ==
    /\ StreamType = "transactions"
    /\ config.server.authorization = <<"\n">>
    /\ channel = "connected"
    /\ pc = "done"
    /\ built = 1
    /\ calls = <<>>
    /\ result = Err("InvalidMetadataValue")

\* The loop of the run ends without an error: the stream closes cleanly, or
\* the bounded loop (balances) stops after its first message
LoopEndsCleanly ==
    \/ script.end = "eos"
    \/ StreamType = "balances" /\ Len(script.msgs) >= 1

\* C16: a finished run reports success exactly when the stream type is
\* valid, the header was built and the call issued, the call opened a
\* stream, and the loop ended cleanly; every other finished run reports
\* failure, whatever it has printed
C16_SuccessIffNothingFailed ==
    pc = "done" =>
        /\ (result = Ok) <=>
              /\ StreamType \in ValidTypes
              /\ calls # <<>>
              /\ handle # "none"
              /\ LoopEndsCleanly
        /\ result # Ok => (result.tag \in {"Err", "Exit"}
                              /\ ExitStatus(result) # 0)
        /\ result = Ok => ExitStatus(result) = 0

C16_Witness ==
    /\ pc = "done"
    /\ StreamType = "dex_pools"
    /\ script.end = "Internal"
    /\ Len(rendered) = 2
    /\ result = Err("Internal")
    /\ ExitStatus(result) = 1

\* C17: a handle is dropped at most once; when the run is over, an opened
\* handle has been dropped, whether the loop ended by break, at the end of
\* the stream or on an error; the number of pulls of a dropped handle is the
\* number made when the loop ended, and no pull follows the one that
\* returned the end of the stream or an error
C17_HandleClosedOnce ==
    /\ closes <= 1
    /\ (handle = "closed") <=> (closes = 1)
    /\ handle = "none" => pulls = 0
    /\ (pc = "done" /\ handle # "none") => handle = "closed"
    /\ handle = "closed" =>
          /\ pc = "done"
          /\ pulls = IF StreamType = "balances"
                     THEN 1 ELSE Len(script.msgs) + 1
    /\ pulls <= Len(script.msgs) + 1

C17_Witness ==
    /\ StreamType = "dex_pools"
    /\ script.end = "Unavailable"
    /\ Len(script.msgs) = 2
    /\ handle = "closed"
    /\ closes = 1
    /\ pulls = 3

\* C18: the stream type fixes the policy.  On a stream of n >= 2 messages
\* that then closes cleanly, balances prints the first message only and
\* each of the other five prints all n; the five return only after the pull
\* that found the end of the stream or an error
C18_PolicyFixedByKind ==
    handle = "closed" =>
        /\ (Len(script.msgs) >= 2 /\ script.end = "eos") =>
              IF StreamType = "balances"
              THEN Len(rendered) = 1 /\ rendered = ExpectedRendered(1)
              ELSE /\ Len(rendered) = Len(script.msgs)
                   /\ rendered = ExpectedRendered(Len(script.msgs))
        /\ StreamType \in UnboundedTypes =>
              /\ pulls = Len(script.msgs) + 1
              /\ script.end \in {"eos"} \cup Statuses

C18_Witness ==
    /\ StreamType = "dex_orders"
    /\ Len(script.msgs) = 2
    /\ script.end = "eos"
    /\ handle = "closed"
    /\ Len(rendered) = 2
    /\ result = Ok

\* C19: the balances loop on a stream that closes cleanly before any
\* message ends after its single pull with nothing printed and the run
\* successful
C19_BoundedEmptyStreamSucceeds ==
    (/\ StreamType = "balances"
     /\ script.msgs = <<>>
     /\ script.end = "eos"
     /\ handle = "open")
        ~> (/\ pc = "done"
            /\ handle = "closed"
            /\ pulls = 1
            /\ rendered = <<>>
            /\ result = Ok)

C19_Witness ==
    /\ StreamType = "balances"
    /\ script.msgs = <<>>
    /\ script.end = "eos"
    /\ pc = "done"
    /\ handle = "closed"
    /\ pulls = 1
    /\ rendered = <<>>
    /\ result = Ok

===========================================================================
